---- MODULE Spec2Model ----
(***************************************************************************)
(* hcache (src/main.go): page-cache census.  The model covers main, top,   *)
(* getPidLds, uniqueSlice and getStatsFromFiles, the mount namespace of    *)
(* the execution context, and the list handed to formatStats.              *)
(***************************************************************************)
EXTENDS Integers, Sequences, FiniteSets, TLC

VARIABLES
    pc,         \* position of the run: "main", "loop", "scan", ... "done"
    topFlag,    \* -top
    pidFlag,    \* -pid
    bnameFlag,  \* -bname
    args,       \* flag.Args()
    procs,      \* top: results, the processes with RSS() != 0
    idx,        \* top: number of processes already handled by the loop
    files,      \* the path list being built / queried
    stats,      \* the PcStatusList collected
    report,     \* the list handed to formatStats
    ns,         \* mount namespace of the execution context
    origin,     \* history: path -> namespaces in which it was obtained
    ops,        \* history: filesystem / namespace operations, in order
    census,     \* history: the list getStatsFromFiles returned
    arg,        \* function under test: its input   (function specifications)
    ret         \* function under test: its result  (function specifications)

vars == <<pc, topFlag, pidFlag, bnameFlag, args, procs, idx, files,
          stats, report, ns, origin, ops, census, arg, ret>>

mainVars == <<topFlag, pidFlag, bnameFlag, args, procs, idx, files,
              stats, report, ns, origin, ops, census>>

-----------------------------------------------------------------------------
(* Bounds *)

MaxLen == 5
MaxFiles == 3
MaxFds == 2
MaxArgs == 2
MaxTop == 3
MaxProcs == 2

-----------------------------------------------------------------------------
(* Strings *)

HasPrefix(s, prefix) ==
    /\ Len(s) >= Len(prefix)
    /\ SubSeq(s, 1, Len(prefix)) = prefix

\* index of the last "/" of s at or before i, 0 when there is none
RECURSIVE LastSlash(_, _)
LastSlash(s, i) ==
    IF i = 0 THEN 0
    ELSE IF SubSeq(s, i, i) = "/" THEN i
    ELSE LastSlash(s, i - 1)

\* s without its trailing slashes
RECURSIVE StripSlashes(_)
StripSlashes(s) ==
    IF Len(s) > 0 /\ SubSeq(s, Len(s), Len(s)) = "/"
    THEN StripSlashes(SubSeq(s, 1, Len(s) - 1))
    ELSE s

\* path.Base
Base(p) ==
    IF p = "" THEN "."
    ELSE LET q == StripSlashes(p)
         IN  IF q = "" THEN "/"
             ELSE SubSeq(q, LastSlash(q, Len(q)) + 1, Len(q))

\* all sequences over S of length at most n
BoundedSeq(S, n) == UNION {[1..k -> S] : k \in 0..n}

\* all orderings of the finite set S
Orderings(S) ==
    {f \in [1..Cardinality(S) -> S] : \A i, j \in 1..Cardinality(S) : i # j => f[i] # f[j]}

-----------------------------------------------------------------------------
(* uniqueSlice *)

RECURSIVE UniqueLoop(_, _, _, _)
UniqueLoop(slice, i, found, total) ==
    IF i > Len(slice) THEN SubSeq(slice, 1, total)
    ELSE IF slice[i] \in found THEN UniqueLoop(slice, i + 1, found, total)
    ELSE UniqueLoop([slice EXCEPT ![total + 1] = slice[i]], i + 1,
                    found \cup {slice[i]}, total + 1)

\* the loop without the copy (*slice)[total] = (*slice)[i]
RECURSIVE UniqueLoopNoCopy(_, _, _, _)
UniqueLoopNoCopy(slice, i, found, total) ==
    IF i > Len(slice) THEN SubSeq(slice, 1, total)
    ELSE IF slice[i] \in found THEN UniqueLoopNoCopy(slice, i + 1, found, total)
    ELSE UniqueLoopNoCopy(slice, i + 1, found \cup {slice[i]}, total + 1)

uniqueSliceNoCopy(slice) == UniqueLoopNoCopy(slice, 1, {}, 0)

uniqueSlice(slice) == UniqueLoop(slice, 1, {}, 0)

-----------------------------------------------------------------------------
(* Function specification: uniqueSlice on every bounded input *)

UniquePaths == {"/tmp/a", "/tmp/b", "/tmp/c"}

InitUnique ==
    /\ pc = "call"
    /\ arg \in BoundedSeq(UniquePaths, MaxLen)
    /\ ret = <<>>
    /\ topFlag = 0 /\ pidFlag = 0 /\ bnameFlag = FALSE /\ args = <<>>
    /\ procs = <<>> /\ idx = 0 /\ files = <<>>
    /\ stats = <<>> /\ report = <<>> /\ ns = "host"
    /\ origin = <<>> /\ ops = <<>> /\ census = <<>>

CallUnique ==
    /\ pc = "call"
    /\ ret' = uniqueSlice(arg)
    /\ pc' = "ret"
    /\ UNCHANGED <<arg, mainVars>>

SpecUnique == InitUnique /\ [][CallUnique]_vars

\* index of the first occurrence of x in s
FirstIndex(s, x) == CHOOSE i \in 1..Len(s) : s[i] = x /\ \A j \in 1..(i - 1) : s[j] # x

\* C1: after uniqueSlice the slice holds each distinct input path exactly
\* once, in the order of first occurrence, and nothing else.
C1_UniqueFirstOccurrence ==
    pc = "ret" =>
        /\ {ret[i] : i \in 1..Len(ret)} = {arg[i] : i \in 1..Len(arg)}
        /\ \A i, j \in 1..Len(ret) : i # j => ret[i] # ret[j]
        /\ \A i, j \in 1..Len(ret) :
              i < j => FirstIndex(arg, ret[i]) < FirstIndex(arg, ret[j])

\* the example [a, b, a, c, b] -> [a, b, c]
C1_Witness ==
    /\ pc = "ret"
    /\ arg = <<"/tmp/a", "/tmp/b", "/tmp/a", "/tmp/c", "/tmp/b">>
    /\ ret = <<"/tmp/a", "/tmp/b", "/tmp/c">>

-----------------------------------------------------------------------------
(* The host the program runs on *)

Namespaces == {"host", "ctr"}

\* the mount namespace the program starts in
OrigNs == "host"

\* os.Getpid()
SelfPid == 1

\* the live processes; LivePids \ {SelfPid} may exit at any time
LivePids == {1, 2, 3, 4}

\* Process.RSS(): pid 4 is a kernel thread
RSS == [p \in LivePids |-> IF p = 4 THEN 0 ELSE 100]

NsOf == [p \in LivePids |-> IF p = 3 THEN "ctr" ELSE "host"]

\* regular files of each mount namespace, with <<pages, cached pages>>
PageMap ==
    [host |-> [p \in {"/tmp/a", "/tmp/b", "/data/a", "/devel/c"} |->
                  CASE p = "/tmp/a" -> <<4, 4>>
                    [] p = "/tmp/b" -> <<4, 2>>
                    [] p = "/data/a" -> <<8, 4>>
                    [] p = "/devel/c" -> <<2, 2>>],
     ctr  |-> [p \in {"/tmp/b", "/data/a"} |->
                  CASE p = "/tmp/b" -> <<4, 2>>
                    [] p = "/data/a" -> <<4, 2>>]]

Regular(n) == DOMAIN PageMap[n]

\* device and process-information nodes exist in every namespace
Pseudo == {"/dev/null", "/proc/2/stat"}

Exists(n) == Regular(n) \cup Pseudo

\* pcstat.GetPcStatus(fname) in namespace n; failed: the file vanished or
\* may not be read.  A path that is no regular file of n always fails.
GetPcStatus(fname, n, failed) ==
    IF failed \/ fname \notin Regular(n)
    THEN [err |-> TRUE, Name |-> fname, Pages |-> 0, Cached |-> 0]
    ELSE [err |-> FALSE, Name |-> fname,
          Pages |-> PageMap[n][fname][1], Cached |-> PageMap[n][fname][2]]

\* the PcStatus appended to stats
Status(r, name) == [Name |-> name, Pages |-> r.Pages, Cached |-> r.Cached]

-----------------------------------------------------------------------------
(* getStatsFromFiles: res[i] is the result of GetPcStatus(fs[i]) *)

RECURSIVE StatsLoop(_, _, _, _, _)
StatsLoop(fs, res, bname, i, acc) ==
    IF i > Len(fs) THEN acc
    ELSE IF res[i].err THEN StatsLoop(fs, res, bname, i + 1, acc)
    ELSE StatsLoop(fs, res, bname, i + 1,
                   Append(acc, Status(res[i], IF bname THEN Base(fs[i]) ELSE fs[i])))

\* the loop with the error branch leaving the loop instead of continuing
RECURSIVE StatsLoopBreak(_, _, _, _, _)
StatsLoopBreak(fs, res, bname, i, acc) ==
    IF i > Len(fs) THEN acc
    ELSE IF res[i].err THEN acc
    ELSE StatsLoopBreak(fs, res, bname, i + 1,
                   Append(acc, Status(res[i], IF bname THEN Base(fs[i]) ELSE fs[i])))

getStatsFromFilesBreak(fs, res, bname) == StatsLoopBreak(fs, res, bname, 1, <<>>)

getStatsFromFiles(fs, res, bname) == StatsLoop(fs, res, bname, 1, <<>>)

\* the results of the residency checks of fs in namespace n, those at the
\* indices of fail failing for a reason of their own
Checks(fs, n, fail) == [i \in 1..Len(fs) |-> GetPcStatus(fs[i], n, i \in fail)]

-----------------------------------------------------------------------------
(* Function specification: getStatsFromFiles on every bounded input *)

StatPaths == {"/tmp/a", "/tmp/b", "/data/a", "/dev/null"}

InitStats ==
    /\ pc = "call"
    /\ \E fs \in BoundedSeq(StatPaths, MaxFiles), b \in BOOLEAN :
         \E fail \in SUBSET (1..Len(fs)) :
            arg = [files |-> fs, fail |-> fail, bname |-> b]
    /\ ret = <<>>
    /\ topFlag = 0 /\ pidFlag = 0 /\ bnameFlag = FALSE /\ args = <<>>
    /\ procs = <<>> /\ idx = 0 /\ files = <<>>
    /\ stats = <<>> /\ report = <<>> /\ ns \in Namespaces
    /\ origin = <<>> /\ ops = <<>> /\ census = <<>>

CallStats ==
    /\ pc = "call"
    /\ ret' = getStatsFromFiles(arg.files, Checks(arg.files, ns, arg.fail), arg.bname)
    /\ pc' = "ret"
    /\ UNCHANGED <<arg, mainVars>>

SpecStats == InitStats /\ [][CallStats]_vars

\* the indices of arg.files whose residency check succeeded
OkIdx == {i \in 1..Len(arg.files) : ~Checks(arg.files, ns, arg.fail)[i].err}

\* C4: the result holds exactly one record per path whose check succeeded,
\* in input order, and none for a failed path; a failure drops no later path.
C4_PartialFailureContained ==
    pc = "ret" =>
        /\ Len(ret) = Cardinality(OkIdx)
        /\ \A i \in OkIdx :
              LET k == Cardinality({j \in OkIdx : j <= i})
                  r == Checks(arg.files, ns, arg.fail)[i]
              IN  /\ ret[k].Pages = r.Pages
                  /\ ret[k].Cached = r.Cached
                  /\ ret[k].Name = IF arg.bname THEN Base(arg.files[i]) ELSE arg.files[i]

\* three paths, the check of the middle one failing: the first and the third
C4_Witness ==
    /\ pc = "ret"
    /\ ns = "host"
    /\ arg = [files |-> <<"/tmp/a", "/data/a", "/tmp/b">>, fail |-> {2}, bname |-> TRUE]
    /\ ret = << [Name |-> "a", Pages |-> 4, Cached |-> 4],
                [Name |-> "b", Pages |-> 4, Cached |-> 2] >>

-----------------------------------------------------------------------------
(* getPidLds *)

\* strings.Contains
Contains(s, sub) ==
    \E i \in 0..(Len(s) - Len(sub)) : SubSeq(s, i + 1, i + Len(sub)) = sub

\* err.Error() of os.ReadDir: "" is success
DirErrors == {"", "open fd: no such file or directory", "open fd: permission denied"}

\* what happens to one descriptor entry: Lstat fails, EvalSymlinks fails
\* (not found or any other error: both are skipped, only the log differs),
\* or both succeed
Outcomes == {"ok", "lstat_err", "eval_err"}

\* the filter of line 212
Keep(target) ==
    HasPrefix(target, "/") /\ ~HasPrefix(target, "/dev") /\ ~HasPrefix(target, "/proc")

\* the loop over the entries: e.dir is entry.IsDir(), e.link is
\* fi.Mode()&os.ModeSymlink != 0, e.target is what EvalSymlinks returns
RECURSIVE ScanLoop(_, _, _, _)
ScanLoop(entries, outcome, i, maps) ==
    IF i > Len(entries) THEN maps
    ELSE LET e == entries[i]
         IN  IF e.dir THEN ScanLoop(entries, outcome, i + 1, maps)
             ELSE IF outcome[i] = "lstat_err" THEN ScanLoop(entries, outcome, i + 1, maps)
             ELSE IF ~e.link THEN ScanLoop(entries, outcome, i + 1, maps)
             ELSE IF outcome[i] = "eval_err" THEN ScanLoop(entries, outcome, i + 1, maps)
             ELSE IF Keep(e.target)
                  THEN ScanLoop(entries, outcome, i + 1, maps \cup {e.target})
                  ELSE ScanLoop(entries, outcome, i + 1, maps)

\* every read error fatal, the missing directory too
getPidLdsAllFatal(pid, dirErr, entries, outcome) ==
    IF pid = SelfPid THEN [fatal |-> FALSE, maps |-> {}]
    ELSE IF dirErr # "" THEN [fatal |-> TRUE, maps |-> {}]
    ELSE [fatal |-> FALSE, maps |-> ScanLoop(entries, outcome, 1, {})]

\* getPidLds: fatal is log.Fatalf, maps the keys of the map; the returned
\* list is the keys in the order the map iteration yields them
getPidLds(pid, dirErr, entries, outcome) ==
    IF pid = SelfPid THEN [fatal |-> FALSE, maps |-> {}]
    ELSE IF dirErr # ""
         THEN IF ~Contains(dirErr, "no such file or directory")
              THEN [fatal |-> TRUE, maps |-> {}]
              ELSE [fatal |-> FALSE, maps |-> {}]
    ELSE [fatal |-> FALSE, maps |-> ScanLoop(entries, outcome, 1, {})]

-----------------------------------------------------------------------------
(* Function specification: getPidLds on every bounded descriptor table *)

\* what EvalSymlinks may return; the last is not absolute
Targets == {"/tmp/a", "/dev/null", "/proc/2/stat", "/devel/c", "pipe:[7]"}

Entries ==
    {[dir |-> TRUE, link |-> FALSE, target |-> ""],
     [dir |-> FALSE, link |-> FALSE, target |-> ""]}
    \cup {[dir |-> FALSE, link |-> TRUE, target |-> t] : t \in Targets}

InitResolver ==
    /\ pc = "call"
    /\ \E pid \in {SelfPid, 2}, d \in DirErrors, es \in BoundedSeq(Entries, MaxFds) :
         \E o \in [1..Len(es) -> Outcomes] :
            arg = [pid |-> pid, dirErr |-> d, entries |-> es, outcome |-> o]
    /\ ret = <<>>
    /\ topFlag = 0 /\ pidFlag = 0 /\ bnameFlag = FALSE /\ args = <<>>
    /\ procs = <<>> /\ idx = 0 /\ files = <<>>
    /\ stats = <<>> /\ report = <<>> /\ ns = "host"
    /\ origin = <<>> /\ ops = <<>> /\ census = <<>>

CallResolver ==
    /\ pc = "call"
    /\ LET r == getPidLds(arg.pid, arg.dirErr, arg.entries, arg.outcome)
       IN  \E out \in Orderings(r.maps) :
              ret' = [fatal |-> r.fatal, out |-> out]
    /\ pc' = "ret"
    /\ UNCHANGED <<arg, mainVars>>

SpecResolver == InitResolver /\ [][CallResolver]_vars

\* path p lies under the root r
Under(p, r) == p = r \/ HasPrefix(p, r \o "/")

\* the targets of arg.entries that were resolved successfully
Resolved ==
    {arg.entries[i].target : i \in {j \in 1..Len(arg.entries) :
        /\ ~arg.entries[j].dir
        /\ arg.entries[j].link
        /\ arg.outcome[j] = "ok"}}

\* the descriptor directory of a process other than the program was read
Scanned == arg.pid # SelfPid /\ arg.dirErr = ""

\* C5: every returned path is absolute and not under /dev or /proc, every
\* resolved absolute target not under those roots is returned, and the list
\* has no duplicates.
C5_Claim ==
    (pc = "ret" /\ Scanned) =>
        /\ \A i \in 1..Len(ret.out) :
              /\ HasPrefix(ret.out[i], "/")
              /\ ~Under(ret.out[i], "/dev")
              /\ ~Under(ret.out[i], "/proc")
        /\ \A t \in Resolved :
              (HasPrefix(t, "/") /\ ~Under(t, "/dev") /\ ~Under(t, "/proc"))
                  => \E i \in 1..Len(ret.out) : ret.out[i] = t
        /\ \A i, j \in 1..Len(ret.out) : i # j => ret.out[i] # ret.out[j]

-----------------------------------------------------------------------------
(* PcStatusList as sort.Interface, and sort.Sort *)

\* the characters of the paths, in byte order
Alphabet == "./0123456789:[]abcdefghijklmnopqrstuvwxyz"

Ord(c) == CHOOSE i \in 1..Len(Alphabet) : SubSeq(Alphabet, i, i) = c

\* a < b as Go compares strings
RECURSIVE StrLess(_, _)
StrLess(a, b) ==
    IF b = "" THEN FALSE
    ELSE IF a = "" THEN TRUE
    ELSE LET x == Ord(SubSeq(a, 1, 1))
             y == Ord(SubSeq(b, 1, 1))
         IN  IF x # y THEN x < y
             ELSE StrLess(SubSeq(a, 2, Len(a)), SubSeq(b, 2, Len(b)))

\* percentCached of a is greater than that of b; 0 when there are no pages
PercentGreater(a, b) ==
    LET an == IF a.Pages = 0 THEN 0 ELSE a.Cached
        ad == IF a.Pages = 0 THEN 1 ELSE a.Pages
        bn == IF b.Pages = 0 THEN 0 ELSE b.Cached
        bd == IF b.Pages = 0 THEN 1 ELSE b.Pages
    IN  an * bd > bn * ad

\* PcStatusList.Less: descending percentCached, then descending
\* residentPages, then name
Less(a, b) ==
    \/ PercentGreater(a, b)
    \/ /\ ~PercentGreater(b, a)
       /\ \/ a.Cached > b.Cached
          \/ a.Cached = b.Cached /\ StrLess(a.Name, b.Name)

Ordered(s) == \A i \in 1..(Len(s) - 1) : ~Less(s[i + 1], s[i])

\* sort.Sort: not stable, any ordered rearrangement
SortResults(s) ==
    {t \in {[i \in 1..Len(s) |-> s[f[i]]] : f \in Orderings(1..Len(s))} : Ordered(t)}

\* the zero value of PcStatus, what a slice holds between len and cap
ZeroStatus == [Name |-> "", Pages |-> 0, Cached |-> 0]

\* s[:n] of a slice of capacity c: a run-time panic when n is out of range
SliceTo(s, c, n) ==
    IF n < 0 \/ n > c THEN [panic |-> TRUE, list |-> <<>>]
    ELSE [panic |-> FALSE,
          list |-> [i \in 1..n |-> IF i <= Len(s) THEN s[i] ELSE ZeroStatus]]

-----------------------------------------------------------------------------
(* The run: main and top *)

\* the descriptor directory of each process: every entry a link
FdTable ==
    [p \in LivePids |->
        LET L(t) == [dir |-> FALSE, link |-> TRUE, target |-> t]
        IN  CASE p = 1 -> <<L("/tmp/a")>>
              [] p = 2 -> <<L("/tmp/a"), L("/tmp/b")>>
              [] p = 3 -> <<L("/tmp/b"), L("/data/a")>>
              [] p = 4 -> <<L("/dev/null"), L("/tmp/a")>>]

ArgPaths == {"/tmp/a", "/tmp/b", "/devel/c"}

AllPaths == ArgPaths \cup Pseudo \cup UNION {Regular(n) : n \in Namespaces}

Range(s) == {s[i] : i \in 1..Len(s)}

Event(op, pid, n, path, res) ==
    [op |-> op, pid |-> pid, ns |-> n, path |-> path, res |-> res]

\* pcstat.SwitchMountNs(pid): the namespace the context is in afterwards
SwitchMountNs(pid) == NsOf[pid]

\* what may happen to the entries of pid's table read in namespace n: a
\* target that does not exist in n is not found
ScanOutcomes(pid, n) ==
    {o \in [1..Len(FdTable[pid]) -> Outcomes] :
        \A i \in 1..Len(FdTable[pid]) :
            o[i] = "ok" => FdTable[pid][i].target \in Exists(n)}

\* the Lstat and EvalSymlinks calls of the loop over the entries, in order
RECURSIVE EntryOps(_, _, _, _, _)
EntryOps(pid, n, entries, outcome, i) ==
    IF i > Len(entries) THEN <<>>
    ELSE LET e == entries[i]
             rest == EntryOps(pid, n, entries, outcome, i + 1)
         IN  IF e.dir THEN rest
             ELSE IF outcome[i] = "lstat_err"
                  THEN <<Event("lstat", pid, n, "", "err")>> \o rest
             ELSE IF ~e.link
                  THEN <<Event("lstat", pid, n, "", "ok")>> \o rest
             ELSE <<Event("lstat", pid, n, "", "ok"),
                    Event("resolve", pid, n, e.target,
                          IF outcome[i] = "ok" THEN "ok" ELSE "err")>> \o rest

\* the filesystem operations of getPidLds(pid), in order, closed by its
\* return (r is what getPidLds computed); log.Fatalf does not return
ScanOps(pid, n, dirErr, entries, outcome, r) ==
    LET back == <<Event("return", pid, n, "", IF r.maps = {} THEN "empty" ELSE "paths")>>
    IN  IF pid = SelfPid THEN back
        ELSE IF dirErr # ""
             THEN <<Event("readdir", pid, n, "", dirErr)>> \o (IF r.fatal THEN <<>> ELSE back)
        ELSE <<Event("readdir", pid, n, "", "ok")>>
             \o EntryOps(pid, n, entries, outcome, 1) \o back

QueryOps(fs, n, res) ==
    [i \in 1..Len(fs) |-> Event("query", 0, n, fs[i], IF res[i].err THEN "err" ELSE "ok")]

Init ==
    /\ pc = "main"
    /\ topFlag \in (-1)..MaxTop
    /\ pidFlag \in {0} \cup LivePids
    /\ bnameFlag \in BOOLEAN
    /\ args \in BoundedSeq(ArgPaths, MaxArgs)
    \* top reads neither flag.Args() nor pidFlag: one choice of them is enough
    /\ topFlag # 0 => (pidFlag = 0 /\ Len(args) <= 1)
    /\ procs = <<>> /\ idx = 0 /\ files = <<>>
    /\ stats = <<>> /\ report = <<>> /\ census = <<>>
    /\ ns = OrigNs
    /\ origin = [p \in AllPaths |-> IF p \in Range(args) THEN {OrigNs} ELSE {}]
    /\ ops = <<>>
    /\ arg = <<>> /\ ret = <<>>

\* the process tables utils.Processes may return
ProcessTables ==
    {p \in BoundedSeq(LivePids, MaxProcs) : \A i, j \in 1..Len(p) : i # j => p[i] # p[j]}

\* main, line 150, and top, lines 112-127
TopProcesses ==
    /\ pc = "main"
    /\ topFlag # 0
    /\ \E failed \in BOOLEAN, p \in ProcessTables :
          IF failed \/ Len(p) <= 0
          THEN pc' = "fatal" /\ UNCHANGED procs
          ELSE /\ procs' = SelectSeq(p, LAMBDA x : RSS[x] # 0)
               /\ pc' = "loop"
    /\ UNCHANGED <<topFlag, pidFlag, bnameFlag, args, idx, files, stats,
                   report, ns, origin, ops, census, arg, ret>>

\* top, line 132: the switch that precedes the scan, left out
TopSwitchSkipped ==
    /\ pc = "loop"
    /\ idx < Len(procs)
    /\ pc' = "scan"
    /\ UNCHANGED <<topFlag, pidFlag, bnameFlag, args, procs, idx, files, stats,
                   report, ns, origin, ops, census, arg, ret>>

\* top, line 132
TopSwitch ==
    /\ pc = "loop"
    /\ idx < Len(procs)
    /\ ns' = SwitchMountNs(procs[idx + 1])
    /\ ops' = Append(ops, Event("switch", procs[idx + 1], ns', "", "ok"))
    /\ pc' = "scan"
    /\ UNCHANGED <<topFlag, pidFlag, bnameFlag, args, procs, idx, files, stats,
                   report, origin, census, arg, ret>>

\* top, lines 133-134
TopScan ==
    /\ pc = "scan"
    /\ LET pid == procs[idx + 1]
       IN  \E d \in DirErrors, o \in ScanOutcomes(pid, ns) :
              LET r == getPidLds(pid, d, FdTable[pid], o)
              IN  /\ ops' = ops \o ScanOps(pid, ns, d, FdTable[pid], o, r)
                  /\ IF r.fatal
                     THEN pc' = "fatal" /\ UNCHANGED <<files, origin, idx>>
                     ELSE \E maps \in Orderings(r.maps) :
                            /\ files' = files \o maps
                            /\ origin' = [p \in AllPaths |->
                                  IF p \in r.maps THEN origin[p] \cup {NsOf[pid]}
                                  ELSE origin[p]]
                            /\ idx' = idx + 1
                            /\ pc' = "loop"
    /\ UNCHANGED <<topFlag, pidFlag, bnameFlag, args, procs, stats, report, ns,
                   census, arg, ret>>

\* top, line 137
TopUnique ==
    /\ pc = "loop"
    /\ idx = Len(procs)
    /\ files' = uniqueSlice(files)
    /\ pc' = "collect"
    /\ UNCHANGED <<topFlag, pidFlag, bnameFlag, args, procs, idx, stats, report, ns,
                   origin, ops, census, arg, ret>>

\* top, line 139, and main, line 170: getStatsFromFiles(files)
Collect ==
    /\ pc = "collect"
    /\ \E fail \in SUBSET (1..Len(files)) :
          LET res == Checks(files, ns, fail)
          IN  /\ stats' = getStatsFromFiles(files, res, bnameFlag)
              /\ census' = stats'
              /\ ops' = ops \o QueryOps(files, ns, res)
    /\ pc' = "rank"
    /\ UNCHANGED <<topFlag, pidFlag, bnameFlag, args, procs, idx, files, report, ns,
                   origin, arg, ret>>

\* top, lines 141-144: cap(stats) is len(files)
TopRank ==
    /\ pc = "rank"
    /\ topFlag # 0
    /\ \E t \in SortResults(stats) :
          LET topStats == SliceTo(t, Len(files), topFlag)
          IN  /\ stats' = t
              /\ IF topStats.panic
                 THEN pc' = "panic" /\ UNCHANGED report
                 ELSE pc' = "done" /\ report' = topStats.list
    /\ UNCHANGED <<topFlag, pidFlag, bnameFlag, args, procs, idx, files, ns,
                   origin, ops, census, arg, ret>>

\* main, lines 165-168 once files is complete
AfterFiles(fs) == IF Len(fs) = 0 THEN "usage" ELSE "collect"

\* main, lines 150-156 and 165-168
MainArgs ==
    /\ pc = "main"
    /\ topFlag = 0
    /\ files' = args
    /\ pc' = IF pidFlag # 0 THEN "pid_switch" ELSE AfterFiles(args)
    /\ UNCHANGED <<topFlag, pidFlag, bnameFlag, args, procs, idx, stats, report, ns,
                   origin, ops, census, arg, ret>>

\* main, line 157
MainSwitch ==
    /\ pc = "pid_switch"
    /\ ns' = SwitchMountNs(pidFlag)
    /\ ops' = Append(ops, Event("switch", pidFlag, ns', "", "ok"))
    /\ pc' = "pid_scan"
    /\ UNCHANGED <<topFlag, pidFlag, bnameFlag, args, procs, idx, files, stats,
                   report, origin, census, arg, ret>>

\* main, lines 158-159 and 165-168
MainScan ==
    /\ pc = "pid_scan"
    /\ \E d \in DirErrors, o \in ScanOutcomes(pidFlag, ns) :
          LET r == getPidLds(pidFlag, d, FdTable[pidFlag], o)
          IN  /\ ops' = ops \o ScanOps(pidFlag, ns, d, FdTable[pidFlag], o, r)
              /\ IF r.fatal
                 THEN pc' = "fatal" /\ UNCHANGED <<files, origin>>
                 ELSE \E maps \in Orderings(r.maps) :
                        /\ files' = files \o maps
                        /\ origin' = [p \in AllPaths |->
                              IF p \in r.maps THEN origin[p] \cup {NsOf[pidFlag]}
                              ELSE origin[p]]
                        /\ pc' = AfterFiles(files')
    /\ UNCHANGED <<topFlag, pidFlag, bnameFlag, args, procs, idx, stats, report, ns,
                   census, arg, ret>>

\* main, lines 171-172
MainRank ==
    /\ pc = "rank"
    /\ topFlag = 0
    /\ \E t \in SortResults(stats) :
          /\ stats' = t
          /\ report' = t
    /\ pc' = "done"
    /\ UNCHANGED <<topFlag, pidFlag, bnameFlag, args, procs, idx, files, ns,
                   origin, ops, census, arg, ret>>

Next ==
    \/ TopProcesses
    \/ TopSwitch
    \/ TopScan
    \/ TopUnique
    \/ Collect
    \/ TopRank
    \/ MainArgs
    \/ MainSwitch
    \/ MainScan
    \/ MainRank

Spec == Init /\ [][Next]_vars

-----------------------------------------------------------------------------
(* Properties of the run *)

Ended == pc \in {"done", "panic", "fatal", "usage"}

Min(a, b) == IF a < b THEN a ELSE b

\* C2: in top-N mode with N >= 1 and N at least the number of records, top
\* reports all records in rank order and the run completes; it never slices
\* past the end of the result list.
C2_Claim ==
    (topFlag >= 1 /\ topFlag >= Len(census) /\ pc \in {"done", "panic"}) =>
        /\ pc = "done"
        /\ report = stats
        /\ Ordered(report)

\* C3: with the top flag 0 the records handed to formatStats are in the
\* order of the file arguments that produced them: ranking is the identity.
C3_Claim ==
    (topFlag = 0 /\ pc = "done") => report = census

\* C6: with the top flag 0 or negative the fleet census is not run; the
\* default path reports the full result in identity order.
C6_Claim ==
    topFlag <= 0 =>
        /\ pc \notin {"loop", "scan"}
        /\ procs = <<>>
        /\ \A i \in 1..Len(ops) : ops[i].op = "switch" => ops[i].pid = pidFlag
        /\ pc \in {"done", "panic"} => (pc = "done" /\ report = census)

\* C8: in top-N mode the reported list is the first N of the collected
\* records in descending percentCached, then descending residentPages, then
\* name.
C8_Claim ==
    (topFlag >= 1 /\ pc \in {"done", "panic"}) =>
        /\ pc = "done"
        /\ \E t \in SortResults(census) :
              report = SubSeq(t, 1, Min(topFlag, Len(t)))

\* C10: every residency query runs in a namespace in which its path was
\* obtained: that of a process whose scan yielded it, or the original one
\* for a file argument (stated for the runs with a top flag of 0 or more).
C10_Claim ==
    topFlag >= 0 =>
        \A i \in 1..Len(ops) :
            ops[i].op = "query" => ops[i].ns \in origin[ops[i].path]

ScanOp(e) == e.op \in {"readdir", "lstat", "resolve"}

\* C9: the descriptor-directory listing of a process directly follows a
\* namespace switch targeting that process, and every Lstat and symlink
\* resolution of the scan directly follows an operation of the same scan, in
\* the same namespace: nothing is interleaved in switch, listing, resolutions.
C9_SwitchScanUnit ==
    \A i \in 1..Len(ops) :
        /\ ops[i].op = "readdir" =>
              /\ i > 1
              /\ ops[i - 1].op = "switch"
              /\ ops[i - 1].pid = ops[i].pid
              /\ ops[i - 1].ns = ops[i].ns
        /\ ops[i].op \in {"lstat", "resolve"} =>
              /\ i > 1
              /\ ScanOp(ops[i - 1])
              /\ ops[i - 1].pid = ops[i].pid
              /\ ops[i - 1].ns = ops[i].ns
        /\ ops[i].op = "query" =>
              \A j \in i..Len(ops) : ops[j].op = "query"

\* a finished top run that scanned process 3 and then process 2
C9_Witness ==
    /\ pc = "done"
    /\ topFlag >= 1
    /\ \E i, j \in 1..Len(ops) :
          /\ i < j
          /\ ops[i].op = "resolve" /\ ops[i].pid = 3 /\ ops[i].res = "ok"
          /\ ops[j].op = "resolve" /\ ops[j].pid = 2 /\ ops[j].res = "ok"
    /\ \E i \in 1..Len(ops) : ops[i].op = "query"

NotFound(e) == Contains(e.res, "no such file or directory")

====
